---- MODULE Spec2Model ----
(***************************************************************************)
(* State-machine model of mace::Tuner<param_type> (mace/utils/tuner.h):    *)
(* the process-wide singleton, its load on construction and save on        *)
(* destruction, TuneOrRun with its three branches, and Tune/Run, the       *)
(* benchmarking loop.                                                      *)
(*                                                                         *)
(* The kernel (func), the candidate generator, the Timer and the process   *)
(* environment are inputs: their behaviour is drawn from small sets.       *)
(* A kernel invocation returns a token naming the invocation (its number   *)
(* within the call), so that "which invocation's Result is returned" is    *)
(* observable.                                                             *)
(***************************************************************************)
EXTENDS Integers, Sequences, FiniteSets, TLC

\* ------------------------------------------------------------------ bounds
MaxCands == 2   \* longest candidate list a generator yields
MaxTime  == 1   \* largest value Timer::AccumulatedMicros() reports
MaxCalls == 3   \* TuneOrRun calls made by one process

\* ------------------------------------------------------- program constants
WarmupRuns   == 2    \* Run<RetType>(func, param, timer, 2, ...)
MeasuredRuns == 10   \* Run<RetType>(func, param, timer, 10, ...)

\* ------------------------------------------------------------ environment
NullPtr == "nullptr"          \* a null const char* (path)
NullEnv == <<"nullptr">>      \* getenv("MACE_TUNING") == nullptr
FlagOn  == <<"1">>            \* the C string "1", as its characters
TuningEnvVals == {NullEnv, <<>>, <<"0">>, <<"1">>, <<"1", "1">>}

ParamKeys == {"convK3", "gemmTile"}
Defaults  == {<<7>>, <<8>>}

\* MACE_OBFUSCATE_SYMBOL: a deterministic, collision-free transform of the key
Obfuscate(param_key) == IF param_key = "convK3" THEN "k0" ELSE "k1"

EmptyTable == <<>>
NoFile     == [exists |-> FALSE, table |-> EmptyTable]
FileOf(t)  == [exists |-> TRUE, table |-> t]
SavedFile  == FileOf(Obfuscate("gemmTile") :> <<4, 16>>)
\* The configured path and the file found there when the process starts: no
\* path configured, a path to a missing file, a path to a saved table.
Persisted == {<<NullPtr, SavedFile>>, <<"/data/mace_run.config", NoFile>>,
              <<"/data/mace_run.config", SavedFile>>}

\* A generator argument: nullptr, or a function yielding n candidates.
NullGenerator == [present |-> FALSE, n |-> 0]
Generators == {NullGenerator} \cup {[present |-> TRUE, n |-> m] : m \in 0..MaxCands}

\* param_generator(): the CandidateSet <<1>>, <<2>>, ..., in generator order
Generate(g) == [j \in 1..g.n |-> <<j>>]

\* What a kernel reports through the output buffer when it writes: a vector
\* derived from, and distinct from, the candidate it was run with.
Refined(param) == param \o param

\* The behaviour of the kernel and the timer over the 12 invocations made for
\* one candidate: the timer reading after each invocation (one value while the
\* kernel is cold, the first three invocations, and one once it is warm) and
\* whether the kernel assigns the output buffer.
Kernels ==
  { [micros |-> [j \in 1..12 |-> IF j <= 3 THEN cold ELSE warm], writes |-> wr] :
      cold \in 0..MaxTime, warm \in 0..MaxTime, wr \in BOOLEAN }

VARIABLES
  pc,              \* "start", "idle", "tune", "returned", "exited"
  tuning_env,      \* value of MACE_TUNING
  path_env,        \* value of MACE_RUN_PARAMETER_PATH
  disable_warning, \* the build defines MACE_DISABLE_NO_TUNING_WARNING
  file,            \* the persisted parameter file
  file_writes,     \* times the file was opened for writing
  path_,           \* Tuner::path_
  param_table_,    \* Tuner::param_table_
  loadCount,       \* calls of ReadRunParamters
  saveCount,       \* calls of WriteRunParameters
  loadWarn,        \* "Get run parameter failed." was logged
  saveWarn,        \* "Write run parameter file failed." was logged
  ncalls,          \* TuneOrRun calls started
  call_limit,      \* TuneOrRun calls this process makes at most
  cand_limit,      \* candidates its generators yield at most
  \* the current (or, at "returned", the last) TuneOrRun call
  param_key, default_param, param_generator,
  state,           \* "TUNING", "CACHE_HIT", "CACHE_MISS" ("NONE": no call)
  ret,             \* the returned Result
  invs,            \* kernel invocations made by the call
  lastInv,         \* arguments of the last kernel invocation
  callWarn,        \* warnings logged by the call
  genCalls,        \* invocations of param_generator by the call
  table_at_call,   \* param_table_ when the call began
  prev_time,       \* best time of the call before, when that call tuned the same key
  \* locals of Tune
  params, ci, tuning_result, opt_time, opt_param, res,
  chosen,          \* index of the candidate whose values opt_* hold (0: none)
  hist,            \* per benchmarked candidate, what was observed
  hitVec,          \* per key, the vector of the CACHE_HIT calls since the flag was last on
  tuned,           \* per key, what the last TUNING call for it stored
  param_width,     \* sizeof(param_type) of the build
  big_endian,      \* the host stores the most significant byte first
  ofs              \* the std::ofstream of WriteRunParameters and the writes it took

procVars == <<pc, tuning_env, path_env, disable_warning, file, file_writes, ofs, path_,
              param_table_, loadCount, saveCount, loadWarn, saveWarn, ncalls,
              call_limit, cand_limit, param_width, big_endian>>
callVars == <<param_key, default_param, param_generator, state, ret, invs,
              lastInv, callWarn, genCalls, table_at_call, prev_time>>
tuneVars == <<params, ci, tuning_result, opt_time, opt_param, res, chosen, hist>>
vars == <<procVars, callVars, tuneVars, hitVec, tuned>>

\* ------------------------------------------------------------------ times
\* A double holding total * 1.0 / num_runs is kept as <<total, num_runs>>;
\* std::numeric_limits<double>::max() is <<1, 0>>.
DoubleMax == <<1, 0>>
ZeroTime  == <<0, 1>>

TimeLessEq(a, b) ==
  IF b[2] = 0 THEN TRUE
  ELSE IF a[2] = 0 THEN FALSE
  ELSE a[1] * b[2] <= b[1] * a[2]

\* tmp_time < opt_time
TimeLess(a, b) ==
  IF a[2] = 0 THEN FALSE
  ELSE IF b[2] = 0 THEN TRUE
  ELSE a[1] * b[2] < b[1] * a[2]

TimeUsAccum(old_time_us, total_time_us, num_runs) ==
  <<old_time_us[1] * num_runs + total_time_us * old_time_us[2],
    old_time_us[2] * num_runs>>

\* *time_us = total_time_us * 1.0 / num_runs
TimeUs(old_time_us, total_time_us, num_runs) == <<total_time_us, num_runs>>

\* ---------------------------------------------------------------- IsTuning
IsTuningPrefix(tuning) == tuning /= NullEnv /\ Len(tuning) >= 1 /\ tuning[1] = "1"

IsTuning(tuning) == tuning /= NullEnv /\ Len(tuning) = 1 /\ tuning[1] = "1"

\* --------------------------------------------------------- the table (map)
FindAlways(table, key) == TRUE
FindInverted(table, key) == key \notin DOMAIN table

\* param_table_.find(key) != param_table_.end()
Find(table, key) == key \in DOMAIN table

IndexMove(table, key) ==
  [value |-> IF key \in DOMAIN table THEN table[key] ELSE <<>>,
   table |-> [k \in DOMAIN table \cup {key} |-> IF k = key THEN <<>> ELSE table[k]]]

\* param_table_[key] as an rvalue: inserts an empty vector when key is absent
Index(table, key) ==
  [value |-> IF key \in DOMAIN table THEN table[key] ELSE <<>>,
   table |-> [k \in DOMAIN table \cup {key} |->
                IF k \in DOMAIN table THEN table[k] ELSE <<>>]]

StoreClobber(table, key, value) == [k \in {key} |-> value]
StoreIfAbsent(table, key, value) ==
  [k \in DOMAIN table \cup {key} |-> IF k \in DOMAIN table THEN table[k] ELSE value]

\* param_table_[key] = value
Store(table, key, value) ==
  [k \in DOMAIN table \cup {key} |-> IF k = key THEN value ELSE table[k]]

\* ------------------------------------------------------------ persistence
\* GetTuningParams(path, &param_table): no path, nothing to load; a missing
\* file, failure with the table left empty.
GetTuningParams(path, f) ==
  IF path = NullPtr THEN [success |-> TRUE, table |-> EmptyTable]
  ELSE IF ~f.exists THEN [success |-> FALSE, table |-> EmptyTable]
  ELSE [success |-> TRUE, table |-> f.table]

ReadRunParamtersSilent(path, f) ==
  [table |-> GetTuningParams(path, f).table, warn |-> FALSE]

\* ReadRunParamters: the loader fills the table; its failure is logged.
ReadRunParamters(path, f) ==
  LET success == GetTuningParams(path, f).success
  IN [table |-> GetTuningParams(path, f).table, warn |-> ~success]

\* ------------------------------------------------------------- invocations
NoInvocation == [param |-> <<>>, timer |-> FALSE, out |-> FALSE]
ReplayWithTimer(param) == [param |-> param, timer |-> TRUE, out |-> FALSE]

\* func(param, nullptr, nullptr)
Replay(param) == [param |-> param, timer |-> FALSE, out |-> FALSE]

\* One call func(params, timer, tuning_result) made by Run: its Result, the
\* timer reading after it, and the output buffer after it.  seq numbers the
\* invocation within the candidate, inv within the TuneOrRun call.
Invoke(k, param, seq, inv, out) ==
  [res |-> inv, micros |-> k.micros[seq],
   out |-> IF k.writes THEN Refined(param) ELSE out]

\* Run: the loop "for (i = 0; i < num_runs; ++i)" from iteration i on
RECURSIVE RunLoop(_, _, _, _, _)
RunLoop(k, param, i, num_runs, acc) ==
  IF i >= num_runs THEN acc
  ELSE LET r == Invoke(k, param, acc.seq + 1, acc.inv + 1, acc.out)
       IN RunLoop(k, param, i + 1, num_runs,
                  [res |-> r.res, total |-> acc.total + r.micros, out |-> r.out,
                   seq |-> acc.seq + 1, inv |-> acc.inv + 1,
                   timed |-> acc.timed + 1])

\* Run(func, params, timer, num_runs, time_us, tuning_result); st carries the
\* output buffer and the invocation counters in, time_us is *time_us before.
Run(k, param, num_runs, time_us, st) ==
  LET r == RunLoop(k, param, 0, num_runs,
                   [res |-> 0, total |-> 0, out |-> st.out, seq |-> st.seq,
                    inv |-> st.inv, timed |-> st.timed])
  IN [res |-> r.res, time_us |-> TimeUs(time_us, r.total, num_runs),
      out |-> r.out, seq |-> r.seq, inv |-> r.inv, timed |-> r.timed]

AdoptKeepRes(best, tmp_time, result, tmp_res, idx) ==
  IF TimeLess(tmp_time, best.opt_time)
  THEN [opt_time |-> tmp_time, opt_param |-> result, res |-> best.res, chosen |-> idx]
  ELSE best

\* if (tmp_time < opt_time) { opt_time = ...; *opt_params = ...; res = ...; }
Adopt(best, tmp_time, result, tmp_res, idx) ==
  IF TimeLess(tmp_time, best.opt_time)
  THEN [opt_time |-> tmp_time, opt_param |-> result, res |-> tmp_res, chosen |-> idx]
  ELSE best

OptParamEmpty(default) == <<>>

\* std::vector<param_type> opt_param = default_param;
OptParamSeed(default) == default

LoopParamBack(candidates, i) == candidates[Len(candidates) + 1 - i]

\* for (auto param : params): the element of the i-th iteration
LoopParam(candidates, i) == candidates[i]

RECURSIVE SumFrom(_, _, _)
SumFrom(s, lo, hi) == IF lo > hi THEN 0 ELSE s[lo] + SumFrom(s, lo + 1, hi)

\* ------------------------------------------------- the saved byte stream
SizeofInt64 == 8        \* sizeof(num_pramas)
SizeofInt32 == 4        \* sizeof(key_size), sizeof(params_size)
SizeofUnsignedInt == 4  \* the element type GetTuningParams is declared with

\* sizeof(param_type) over the fixed-width integer types
Widths == {1, 2, 4, 8}

\* What a read past the end of a vector's storage may find in a byte.
JunkBytes == {0, 255}

\* The object representation of the n-byte integer v in host byte order.
RECURSIVE ShiftRight(_, _)
ShiftRight(v, bytes) == IF bytes = 0 THEN v ELSE ShiftRight(v \div 256, bytes - 1)
ByteOf(v, i) == ShiftRight(v, i - 1) % 256
ObjectBytes(v, n, be) == [i \in 1..n |-> IF be THEN ByteOf(v, n + 1 - i) ELSE ByteOf(v, i)]

\* The integer whose object representation is bytes, most significant byte
\* first in the recursion.  A value of TooLong or more (no file is that long,
\* and a negative int32 reads as such) is reported as TooLong.
TooLong == 65536
RECURSIVE ValueFrom(_, _, _)
ValueFrom(bytes, be, i) ==
  IF i > Len(bytes) THEN 0
  ELSE LET high == ValueFrom(bytes, be, i + 1)
           v == high * 256 + bytes[IF be THEN Len(bytes) + 1 - i ELSE i]
       IN IF high >= TooLong \/ v >= TooLong THEN TooLong ELSE v
ValueOf(bytes, be) == ValueFrom(bytes, be, 1)

\* kp.first.c_str(): the characters of an obfuscated key, as their codes
KeyBytes(key) == IF key = "k0" THEN <<107, 48>> ELSE <<107, 49>>
StringOf(bytes) ==
  IF bytes = <<107, 48>> THEN "k0" ELSE IF bytes = <<107, 49>> THEN "k1" ELSE "?"

\* The storage of a std::vector<param_type>: its elements, param_width bytes each.
RECURSIVE VectorBytes(_, _, _)
VectorBytes(vec, width, be) ==
  IF vec = <<>> THEN <<>>
  ELSE ObjectBytes(Head(vec), width, be) \o VectorBytes(Tail(vec), width, be)

\* No std::ofstream was constructed.
NoStream == [is_open |-> FALSE, fail |-> FALSE, writes |-> <<>>]

\* One call ofs.write(ptr, count): the field written, the entry it belongs to
\* and the bytes that went out.
WriteCall(what, key, bytes) == [what |-> what, key |-> key, bytes |-> bytes]

\* for (auto &param : params) ofs.write((char *)&param, sizeof(params_size)),
\* from element i on; mem is the vector's storage followed by what lies behind.
RECURSIVE WriteParamLoop(_, _, _, _, _)
WriteParamLoop(key, mem, width, i, n) ==
  IF i > n THEN <<>>
  ELSE <<WriteCall("param", key,
                   SubSeq(mem, (i - 1) * width + 1, (i - 1) * width + SizeofInt32))>>
       \o WriteParamLoop(key, mem, width, i + 1, n)

\* The body of "for (auto &kp : param_table_)" for one entry.
WriteEntry(key, vec, width, be, behind) ==
  LET key_size == Len(KeyBytes(key))
      params_size == Len(vec) * width
  IN <<WriteCall("key_size", key, ObjectBytes(key_size, SizeofInt32, be)),
       WriteCall("key", key, SubSeq(KeyBytes(key), 1, key_size)),
       WriteCall("params_size", key, ObjectBytes(params_size, SizeofInt32, be))>>
     \o WriteParamLoop(key, VectorBytes(vec, width, be) \o behind, width, 1, Len(vec))

RECURSIVE WriteEntries(_, _, _, _, _, _)
WriteEntries(table, order, i, width, be, behind) ==
  IF i > Len(order) THEN <<>>
  ELSE WriteEntry(order[i], table[order[i]], width, be, behind[order[i]])
       \o WriteEntries(table, order, i + 1, width, be, behind)

\* Everything WriteRunParameters writes to an open stream: num_pramas, then
\* the entries in the iteration order of the map.
WriteStream(table, order, width, be, behind) ==
  <<WriteCall("num_pramas", "", ObjectBytes(Cardinality(DOMAIN table), SizeofInt64, be))>>
  \o WriteEntries(table, order, 1, width, be, behind)

\* The iteration orders an unordered_map with these keys may have.
Orders(keys) ==
  {o \in [1..Cardinality(keys) -> keys] : \A a, b \in DOMAIN o: a /= b => o[a] /= o[b]}

\* What may lie behind each vector's storage; it is read only when
\* sizeof(params_size) exceeds sizeof(param_type).
Behind(keys, width) ==
  IF width >= SizeofInt32 THEN {[k \in keys |-> <<>>]}
  ELSE [keys -> [1..(SizeofInt32 - width) -> JunkBytes]]

\* The bytes of the file: the writes, one after the other.
RECURSIVE FileBytes(_)
FileBytes(writes) ==
  IF writes = <<>> THEN <<>> ELSE Head(writes).bytes \o FileBytes(Tail(writes))

\* ---------------------------------------------- reading the saved format
\* payload[payload_byte_length]: param_count raw values of width bytes
DecodeVector(bytes, width, be) ==
  [i \in 1..(Len(bytes) \div width) |->
     ValueOf(SubSeq(bytes, (i - 1) * width + 1, i * width), be)]

NotParsed == [ok |-> FALSE, table |-> EmptyTable, lens |-> EmptyTable, rest |-> 0]

\* "repeat entry_count times": key length, key, payload length, payload;
\* stops with failure where the bytes end before a field does.
RECURSIVE ReadEntries(_, _, _, _, _, _)
ReadEntries(bytes, pos, left, width, be, acc) ==
  IF left = 0 THEN [acc EXCEPT !.rest = Len(bytes) + 1 - pos]
  ELSE IF pos + SizeofInt32 - 1 > Len(bytes) THEN NotParsed
  ELSE
    LET key_len == ValueOf(SubSeq(bytes, pos, pos + SizeofInt32 - 1), be)
        key_at  == pos + SizeofInt32
        len_at  == key_at + key_len
    IN IF len_at + SizeofInt32 - 1 > Len(bytes) THEN NotParsed
       ELSE
         LET key == StringOf(SubSeq(bytes, key_at, len_at - 1))
             payload_len == ValueOf(SubSeq(bytes, len_at, len_at + SizeofInt32 - 1), be)
             payload_at == len_at + SizeofInt32
         IN IF payload_at + payload_len - 1 > Len(bytes) \/ payload_len % width /= 0
            THEN NotParsed
            ELSE ReadEntries(bytes, payload_at + payload_len, left - 1, width, be,
                   [ok |-> TRUE,
                    table |-> Store(acc.table, key,
                                DecodeVector(SubSeq(bytes, payload_at,
                                                    payload_at + payload_len - 1),
                                             width, be)),
                    lens |-> Store(acc.lens, key, payload_len),
                    rest |-> 0])

\* The persisted format read into a fresh table: entry_count, then the entries.
ReadFormat(bytes, width, be) ==
  IF Len(bytes) < SizeofInt64 THEN NotParsed
  ELSE ReadEntries(bytes, SizeofInt64 + 1, ValueOf(SubSeq(bytes, 1, SizeofInt64), be),
                   width, be,
                   [ok |-> TRUE, table |-> EmptyTable, lens |-> EmptyTable, rest |-> 0])

\* ------------------------------------------------------------------- Init
NoCall ==
  /\ param_key = "" /\ default_param = <<>> /\ param_generator = NullGenerator
  /\ state = "NONE" /\ ret = 0 /\ invs = 0 /\ lastInv = NoInvocation
  /\ callWarn = 0 /\ genCalls = 0 /\ table_at_call = EmptyTable
  /\ prev_time = DoubleMax

NoTune ==
  /\ params = <<>> /\ ci = 0 /\ tuning_result = <<>> /\ opt_time = DoubleMax
  /\ opt_param = <<>> /\ res = 0 /\ chosen = 0 /\ hist = <<>>

InitProcess ==
  /\ pc = "start"
  /\ tuning_env \in TuningEnvVals
  /\ \E p \in Persisted: path_env = p[1] /\ file = p[2]
  /\ disable_warning \in BOOLEAN
  /\ file_writes = 0
  /\ path_ = NullPtr
  /\ param_table_ = EmptyTable
  /\ loadCount = 0 /\ saveCount = 0
  /\ loadWarn = FALSE /\ saveWarn = FALSE
  /\ ncalls = 0
  /\ NoCall /\ NoTune
  /\ hitVec = EmptyTable
  /\ tuned = EmptyTable
  /\ ofs = NoStream

\* A process that makes up to MaxCalls calls, with generators that yield at
\* most one candidate.
Init ==
  /\ InitProcess /\ call_limit = MaxCalls /\ cand_limit = 1
  /\ param_width = SizeofUnsignedInt /\ big_endian = FALSE

\* A process that makes one call, with generators that yield up to MaxCands
\* candidates.
InitTune ==
  /\ InitProcess /\ call_limit = 1 /\ cand_limit = MaxCands
  /\ param_width = SizeofUnsignedInt /\ big_endian = FALSE

\* A process that makes one call, with generators that yield at most one
\* candidate, in a build of any parameter width and byte order.
InitSave ==
  /\ InitProcess /\ call_limit = 1 /\ cand_limit = 1
  /\ param_width \in Widths /\ big_endian \in BOOLEAN


\* The record of a call is dropped when the process moves on.
ForgetCall ==
  /\ param_key' = "" /\ default_param' = <<>> /\ param_generator' = NullGenerator
  /\ state' = "NONE" /\ ret' = 0 /\ invs' = 0 /\ lastInv' = NoInvocation
  /\ callWarn' = 0 /\ genCalls' = 0 /\ table_at_call' = EmptyTable
  /\ prev_time' = DoubleMax

ForgetTune ==
  /\ params' = <<>> /\ ci' = 0 /\ tuning_result' = <<>> /\ opt_time' = DoubleMax
  /\ opt_param' = <<>> /\ res' = 0 /\ chosen' = 0 /\ hist' = <<>>

\* ------------------------------------------------- construction (Get, Tuner)
\* First Tuner::Get(): the static is constructed; Tuner() reads the path and
\* calls ReadRunParamters.
TunerCtor ==
  /\ pc = "start"
  /\ pc' = "idle"
  /\ path_' = path_env
  /\ LET r == ReadRunParamters(path_env, file)
     IN /\ param_table_' = r.table
        /\ loadWarn' = r.warn
  /\ loadCount' = loadCount + 1
  /\ UNCHANGED <<tuning_env, path_env, call_limit, cand_limit, param_width, big_endian, disable_warning, file, file_writes, ofs,
                 saveCount, saveWarn, ncalls, callVars, tuneVars, hitVec, tuned>>

\* The process changes MACE_TUNING between calls.
SetTuningEnv(v) ==
  /\ pc \in {"start", "idle", "returned"}
  /\ v /= tuning_env
  /\ tuning_env' = v
  /\ pc' = IF pc = "start" THEN "start" ELSE "idle"
  /\ hitVec' = IF v = FlagOn THEN EmptyTable ELSE hitVec
  /\ ForgetCall /\ ForgetTune
  /\ UNCHANGED <<path_env, call_limit, cand_limit, param_width, big_endian, disable_warning, file, file_writes, ofs, path_, param_table_,
                 loadCount, saveCount, loadWarn, saveWarn, ncalls, tuned>>

\* ---------------------------------------------------------------- TuneOrRun
\* The tuning branch up to and including param_generator() in Tune.  res is
\* declared without an initializer: its value is indeterminate.
EnterTune(k, d, g) ==
  /\ pc' = "tune"
  /\ state' = "TUNING"
  /\ opt_param' = OptParamSeed(d)
  /\ res' \in {0, 1}
  /\ opt_time' = DoubleMax
  /\ params' = Generate(g)
  /\ genCalls' = 1
  /\ tuning_result' = <<>>
  /\ ci' = 1 /\ chosen' = 0 /\ hist' = <<>>
  /\ ret' = 0 /\ invs' = 0 /\ lastInv' = NoInvocation /\ callWarn' = 0
  /\ UNCHANGED <<param_table_, hitVec, tuned>>

\* The run branch, key found: func(param_table_[key], nullptr, nullptr)
RunCached(k, d, g) ==
  LET key == Obfuscate(k)
      ix == Index(param_table_, key)
  IN /\ pc' = "returned"
     /\ state' = "CACHE_HIT"
     /\ param_table_' = ix.table
     /\ lastInv' = Replay(ix.value)
     /\ invs' = 1 /\ ret' = 1
     /\ callWarn' = 0 /\ genCalls' = 0
     /\ hitVec' = IF tuning_env = FlagOn THEN hitVec
                  ELSE Store(hitVec, key,
                             [vec |-> ix.value,
                              again |-> key \in DOMAIN hitVec])
     /\ ForgetTune
     /\ UNCHANGED tuned

\* The run branch, key absent: warning, func(default_param, nullptr, nullptr)
RunDefault(k, d, g) ==
  /\ pc' = "returned"
  /\ state' = "CACHE_MISS"
  /\ callWarn' = IF disable_warning THEN 0 ELSE 1
  /\ lastInv' = Replay(d)
  /\ invs' = 1 /\ ret' = 1
  /\ genCalls' = 0
  /\ ForgetTune
  /\ UNCHANGED <<param_table_, hitVec, tuned>>

TuneOrRun(k, d, g) ==
  /\ pc \in {"idle", "returned"}
  /\ ncalls < call_limit
  /\ g.n <= cand_limit
  /\ ncalls' = ncalls + 1
  /\ param_key' = k /\ default_param' = d /\ param_generator' = g
  /\ table_at_call' = param_table_
  /\ prev_time' = IF /\ IsTuning(tuning_env) /\ g.present
                     /\ pc = "returned" /\ state = "TUNING" /\ param_key = k
                     /\ chosen > 0
                  THEN hist[chosen].cmp ELSE DoubleMax
  /\ IF IsTuning(tuning_env) /\ g.present
     THEN EnterTune(k, d, g)
     ELSE IF Find(param_table_, Obfuscate(k))
          THEN RunCached(k, d, g)
          ELSE RunDefault(k, d, g)
  /\ UNCHANGED <<tuning_env, path_env, call_limit, cand_limit, param_width, big_endian, disable_warning, file, file_writes, ofs, path_,
                 loadCount, saveCount, loadWarn, saveWarn>>

\* One iteration of "for (auto param : params)" in Tune: the warm-up Run, the
\* measured Run, and the comparison with the best so far.
BenchmarkCandidate ==
  /\ pc = "tune"
  /\ ci <= Len(params)
  /\ \E k \in Kernels:
       \* warm, meas: the two calls of Run, each evaluated once
       \E warm \in {Run(k, LoopParam(params, ci), WarmupRuns, ZeroTime,
                       [out |-> tuning_result, seq |-> 0, inv |-> invs, timed |-> 0])}:
       \E meas \in {Run(k, LoopParam(params, ci), MeasuredRuns, warm.time_us,
                       [out |-> warm.out, seq |-> warm.seq, inv |-> warm.inv,
                        timed |-> warm.timed])}:
       LET param == LoopParam(params, ci)
           tmp_time == meas.time_us
           tmp_res == meas.res
           best == Adopt([opt_time |-> opt_time, opt_param |-> opt_param,
                          res |-> res, chosen |-> chosen],
                         tmp_time, meas.out, tmp_res, ci)
       IN /\ tuning_result' = meas.out
          /\ opt_time' = best.opt_time
          /\ opt_param' = best.opt_param
          /\ res' = best.res
          /\ chosen' = best.chosen
          /\ invs' = meas.inv
          /\ lastInv' = [param |-> param, timer |-> TRUE, out |-> TRUE]
          /\ hist' = Append(hist,
                [param |-> param, n |-> meas.seq, timed |-> meas.timed,
                 warm |-> SumFrom(k.micros, 1, 2),
                 meas |-> SumFrom(k.micros, 3, 12), cmp |-> tmp_time,
                 out |-> meas.out, wrote |-> k.writes, res |-> 12 * ci,
                 first |-> invs + 1, last |-> meas.inv])
  /\ ci' = ci + 1
  /\ UNCHANGED <<procVars, param_key, default_param, param_generator, state, ret,
                 callWarn, genCalls, table_at_call, prev_time, params, hitVec, tuned>>

\* Tune returns res; TuneOrRun stores opt_param under the obfuscated key and
\* returns.
TuneReturn ==
  /\ pc = "tune"
  /\ ci > Len(params)
  /\ pc' = "returned"
  /\ param_table_' = Store(param_table_, Obfuscate(param_key), opt_param)
  /\ ret' = res
  /\ params' = <<>> /\ ci' = 0 /\ tuning_result' = <<>> /\ opt_time' = DoubleMax
  /\ opt_param' = <<>> /\ res' = 0
  /\ UNCHANGED <<tuning_env, path_env, call_limit, cand_limit, param_width, big_endian, disable_warning, file, file_writes, ofs, path_,
                 loadCount, saveCount, loadWarn, saveWarn, ncalls,
                 param_key, default_param, param_generator, state, invs, lastInv,
                 callWarn, genCalls, table_at_call, prev_time, chosen, hist, hitVec>>
  /\ tuned' = Store(tuned, Obfuscate(param_key), [vec |-> opt_param])

\* ------------------------------------------------------- teardown (~Tuner)
SkipWrite == UNCHANGED <<saveCount, file, file_writes, ofs, saveWarn>>

\* WriteRunParameters: nothing without a path; with one, the stream may fail
\* to open, which is logged.  An open stream takes every write, or fails at
\* the first (the state of the stream is not looked at after a write).
WriteRunParameters ==
  /\ saveCount' = saveCount + 1
  /\ IF path_ /= NullPtr
     THEN \E is_open \in BOOLEAN:
            IF is_open
            THEN /\ file_writes' = file_writes + 1
                 /\ \E good \in BOOLEAN:
                      IF good
                      THEN \E order \in Orders(DOMAIN param_table_),
                              behind \in Behind(DOMAIN param_table_, param_width):
                             \E writes \in {WriteStream(param_table_, order, param_width,
                                                        big_endian, behind)}:
                               /\ ofs' = [is_open |-> TRUE, fail |-> FALSE, writes |-> writes]
                               /\ file' = FileOf(ReadFormat(FileBytes(writes),
                                                            SizeofUnsignedInt,
                                                            big_endian).table)
                      ELSE /\ ofs' = [is_open |-> TRUE, fail |-> TRUE, writes |-> <<>>]
                           /\ file' = FileOf(EmptyTable)
                 /\ UNCHANGED saveWarn
            ELSE /\ saveWarn' = TRUE
                 /\ ofs' = [is_open |-> FALSE, fail |-> TRUE, writes |-> <<>>]
                 /\ UNCHANGED <<file, file_writes>>
     ELSE UNCHANGED <<file, file_writes, ofs, saveWarn>>

\* Normal process exit with the singleton constructed: ~Tuner() runs.
TunerDtor ==
  /\ pc \in {"idle", "returned"}
  /\ pc' = "exited"
  /\ WriteRunParameters
  /\ ForgetCall /\ ForgetTune
  /\ UNCHANGED <<tuning_env, path_env, call_limit, cand_limit, param_width, big_endian, disable_warning, path_, param_table_,
                 loadCount, loadWarn, ncalls, hitVec, tuned>>

\* Process exit without Tuner::Get() ever called: nothing was constructed.
ExitUnused ==
  /\ pc = "start"
  /\ pc' = "exited"
  /\ UNCHANGED <<tuning_env, path_env, call_limit, cand_limit, param_width, big_endian, disable_warning, file, file_writes, ofs, path_,
                 param_table_, loadCount, saveCount, loadWarn, saveWarn, ncalls,
                 callVars, tuneVars, hitVec, tuned>>

Next ==
  \/ TunerCtor
  \/ \E v \in TuningEnvVals: SetTuningEnv(v)
  \/ \E k \in ParamKeys, d \in Defaults, g \in Generators: TuneOrRun(k, d, g)
  \/ BenchmarkCandidate
  \/ TuneReturn
  \/ TunerDtor
  \/ ExitUnused

Spec == Init /\ [][Next]_vars

SpecTune == InitTune /\ [][Next]_vars

SpecSave == InitSave /\ [][Next]_vars


\* =============================================================== properties
\* The call that has just returned was a tuning call: flag on, generator given.
TuningCall == tuning_env = FlagOn /\ param_generator.present
CallKey == Obfuscate(param_key)

\* C1: when a TuneOrRun call made with the tuning flag on and a non-null
\* generator returns, the table maps the call's obfuscated key to the output
\* buffer recorded for the winning candidate, and the returned Result is the
\* Result of that candidate's last measured run.
C1_TuneWriteThrough ==
  (pc = "returned" /\ TuningCall /\ hist /= <<>>) =>
     /\ chosen \in 1..Len(hist)
     /\ CallKey \in DOMAIN param_table_
     /\ param_table_[CallKey] = hist[chosen].out
     /\ ret = hist[chosen].res

C1_Witness ==
  /\ pc = "returned" /\ TuningCall /\ Len(hist) = 2 /\ chosen = 2
  /\ param_table_[CallKey] = Refined(<<2>>) /\ ret = 24

\* C2: the candidate chosen by Tune has the minimal measured mean over all
\* candidates benchmarked, and every earlier candidate has a strictly larger
\* mean (all means are over 10 runs, so they compare as the sums do).
C2_SelectionCorrect ==
  (pc \in {"tune", "returned"} /\ hist /= <<>>) =>
     /\ chosen \in 1..Len(hist)
     /\ \A j \in 1..Len(hist): hist[chosen].meas <= hist[j].meas
     /\ \A j \in 1..(chosen - 1): hist[j].meas > hist[chosen].meas

C2_Witness ==
  /\ pc = "returned" /\ Len(hist) = 2
  /\ hist[1].meas = hist[2].meas /\ hist[1].meas > 0 /\ chosen = 1

\* C3: for each candidate the kernel is invoked exactly 12 times, each time
\* with the timer and the output buffer, and the time compared with the best
\* is the mean of the readings of the last 10 invocations only.
C3_WarmupIsolation ==
  \A i \in 1..Len(hist):
     /\ hist[i].n = 12
     /\ hist[i].timed = 12
     /\ hist[i].cmp[2] /= 0
     /\ hist[i].cmp[1] * 10 = hist[i].meas * hist[i].cmp[2]

C3_Witness ==
  /\ Len(hist) = 2
  /\ hist[2].warm > 0
  /\ hist[2].warm * 10 /= hist[2].meas * 2

\* C4: the vector stored for the winner is what the kernel wrote during the
\* winning candidate's own runs: not the candidate itself, and not a value
\* written while another candidate was benchmarked, also when the kernel wrote
\* nothing for the winner.
C4_AdoptedOwnOutput ==
  (pc = "returned" /\ TuningCall /\ hist /= <<>> /\ chosen \in 1..Len(hist)) =>
     /\ hist[chosen].wrote => param_table_[CallKey] = Refined(hist[chosen].param)
     /\ param_table_[CallKey] /= hist[chosen].param
     /\ \A j \in 1..Len(hist):
          (j /= chosen /\ hist[j].wrote) =>
             param_table_[CallKey] /= Refined(hist[j].param)

\* C5: a call that is not a tuning call and whose key is in the table invokes
\* the kernel once with the cached vector, no timer and no output buffer,
\* returns that invocation's Result, logs no warning and leaves the table as
\* it was.
C5_CacheHit ==
  (pc = "returned" /\ ~TuningCall /\ CallKey \in DOMAIN table_at_call) =>
     /\ state = "CACHE_HIT"
     /\ invs = 1
     /\ lastInv = [param |-> table_at_call[CallKey], timer |-> FALSE, out |-> FALSE]
     /\ ret = invs
     /\ callWarn = 0
     /\ genCalls = 0
     /\ param_table_ = table_at_call

C5_Witness ==
  /\ pc = "returned" /\ state = "CACHE_HIT" /\ tuning_env = FlagOn
  /\ lastInv.param = <<4, 16>> /\ default_param = <<7>>

\* C6 (as claimed): a call that is not a tuning call and whose key is absent
\* invokes the kernel once with the default vector, no timer and no output
\* buffer, logs exactly one warning, returns that invocation's Result and
\* leaves the table as it was.
C6_MissWarnsOnce ==
  (pc = "returned" /\ ~TuningCall /\ CallKey \notin DOMAIN table_at_call) =>
     /\ state = "CACHE_MISS"
     /\ invs = 1
     /\ lastInv = [param |-> default_param, timer |-> FALSE, out |-> FALSE]
     /\ ret = invs
     /\ callWarn = 1
     /\ param_table_ = table_at_call

\* C6 (amended): as above, with one warning unless the build defines
\* MACE_DISABLE_NO_TUNING_WARNING, and then none.
C6_MissFallback ==
  (pc = "returned" /\ ~TuningCall /\ CallKey \notin DOMAIN table_at_call) =>
     /\ state = "CACHE_MISS"
     /\ invs = 1
     /\ lastInv = [param |-> default_param, timer |-> FALSE, out |-> FALSE]
     /\ ret = invs
     /\ callWarn = (IF disable_warning THEN 0 ELSE 1)
     /\ genCalls = 0
     /\ param_table_ = table_at_call
     /\ CallKey \notin DOMAIN param_table_

C6_Witness ==
  /\ pc = "returned" /\ state = "CACHE_MISS" /\ param_table_ = EmptyTable
  /\ lastInv.param = <<7>> /\ callWarn = 1 /\ tuning_env = <<"0">>

\* C7: a call is in TUNING (the generator is invoked) exactly when
\* MACE_TUNING is the one character "1" and a generator was given; every other
\* call is CACHE_HIT or CACHE_MISS.
C7_ModeSelection ==
  (pc \in {"tune", "returned"}) =>
     /\ (state = "TUNING") <=> (tuning_env = <<"1">> /\ param_generator.present)
     /\ (genCalls = 1) <=> (tuning_env = <<"1">> /\ param_generator.present)
     /\ state \in {"TUNING", "CACHE_HIT", "CACHE_MISS"}
     /\ genCalls \in {0, 1}

\* a tuning call, the flag changed to "11", and the next call replays
C7_Witness ==
  /\ pc = "returned" /\ state = "CACHE_HIT" /\ tuning_env = <<"1", "1">>
  /\ param_generator.present /\ lastInv.param = Refined(<<1>>)

\* C8: once loaded, the table changes only in a step of a tuning call, and
\* that step changes the entry of the call's key only.
C8_TableFrame ==
  [][(pc /= "start" /\ param_table_' /= param_table_) =>
        /\ pc = "tune" /\ TuningCall
        /\ DOMAIN param_table_' = DOMAIN param_table_ \cup {CallKey}
        /\ \A k \in DOMAIN param_table_ \ {CallKey}:
             param_table_'[k] = param_table_[k]]_vars

C8_Witness ==
  /\ pc = "returned" /\ state = "TUNING" /\ param_key = "convK3"
  /\ param_table_ /= table_at_call
  /\ DOMAIN param_table_ = {"k0", "k1"} /\ param_table_["k1"] = <<4, 16>>

\* C9: while the flag is not on, every CACHE_HIT call for a key passes the
\* kernel the vector the previous CACHE_HIT call for that key passed.
C9_HitIdempotent ==
  [][(state' = "CACHE_HIT" /\ ncalls' = ncalls + 1 /\ tuning_env /= FlagOn
        /\ Obfuscate(param_key') \in DOMAIN hitVec) =>
        lastInv'.param = hitVec[Obfuscate(param_key')].vec]_vars

\* a tuned entry replayed twice with the flag off
C9_Witness ==
  /\ pc = "returned" /\ state = "CACHE_HIT" /\ tuning_env /= FlagOn
  /\ CallKey \in DOMAIN hitVec /\ hitVec[CallKey].again
  /\ lastInv.param = Refined(<<1>>)

\* C10: the table is loaded once, when the singleton is first accessed and
\* before any call; it is saved once, at teardown, after every call; the file
\* is written nowhere else.
C10_Lifecycle ==
  /\ loadCount \in {0, 1} /\ saveCount \in {0, 1}
  /\ (pc = "start") => (loadCount = 0 /\ ncalls = 0)
  /\ (pc \in {"idle", "tune", "returned"}) => loadCount = 1
  /\ (pc /= "exited") => (saveCount = 0 /\ file_writes = 0)
  /\ (pc = "exited") => (saveCount = loadCount /\ file_writes <= saveCount)

C10_Witness ==
  /\ pc = "exited" /\ ncalls = 2 /\ loadCount = 1 /\ saveCount = 1
  /\ file_writes = 1 /\ "k0" \in DOMAIN file.table

\* The save at teardown opened the file and every write went out.
Saved == pc = "exited" /\ ofs.is_open /\ ~ofs.fail
SavedBytes == FileBytes(ofs.writes)

\* The writes of one field of one entry, and the bytes they carried.
WritesOf(what, key) == SelectSeq(ofs.writes, LAMBDA w: w.what = what /\ w.key = key)
RECURSIVE BytesIn(_)
BytesIn(writes) == IF writes = <<>> THEN 0 ELSE Len(Head(writes).bytes) + BytesIn(Tail(writes))

\* C11: the bytes WriteRunParameters wrote, read back by the persisted format
\* (entry_count; per entry key length, key, payload length, payload of
\* sizeof(param_type)-wide values) into a fresh table, give the table that was
\* saved: the same keys, the same vectors, the same payload lengths.
C11_RoundTrip ==
  Saved =>
    LET r == ReadFormat(SavedBytes, param_width, big_endian)
    IN /\ r.ok
       /\ r.table = param_table_
       /\ \A k \in DOMAIN param_table_:
            r.lens[k] = Len(param_table_[k]) * param_width

\* C12: in the saved file, at every parameter width, entry_count is the number
\* of table entries, and for each entry the payload length field is
\* param_count * sizeof(param_type), the payload bytes written after it are as
\* many, and each parameter takes sizeof(param_type) bytes.
C12_FormatConsistent ==
  Saved =>
    /\ ofs.writes[1].what = "num_pramas"
    /\ ValueOf(ofs.writes[1].bytes, big_endian) = Cardinality(DOMAIN param_table_)
    /\ \A k \in DOMAIN param_table_:
         /\ Len(WritesOf("params_size", k)) = 1
         /\ ValueOf(WritesOf("params_size", k)[1].bytes, big_endian)
              = Len(param_table_[k]) * param_width
         /\ BytesIn(WritesOf("param", k))
              = ValueOf(WritesOf("params_size", k)[1].bytes, big_endian)
         /\ Len(WritesOf("param", k)) = Len(param_table_[k])
         /\ \A i \in 1..Len(WritesOf("param", k)):
              Len(WritesOf("param", k)[i].bytes) = param_width

\* C13: every TuneOrRun call, in any of its three states and for any candidate
\* set, the empty one included, returns the Result of a kernel invocation made
\* during that call.
C13_ResultProduced ==
  (pc = "returned") => (invs >= 1 /\ ret \in 1..invs)

C15_SaveDegrades ==
  (pc = "exited" /\ saveCount = 1) =>
     /\ (path_ = NullPtr) => (ofs = NoStream /\ file_writes = 0 /\ ~saveWarn)
     /\ (path_ /= NullPtr /\ ofs.fail) => saveWarn

\* The call that has just returned, or is in progress, is a tuning call whose
\* generator yielded no candidate.
EmptyTuningCall == TuningCall /\ param_generator.n = 0

\* C16: a TUNING call whose generator yields an empty candidate list logs at
\* least one warning.
C16_EmptyWarns ==
  (pc = "returned" /\ EmptyTuningCall) => callWarn >= 1

\* C17: when the generator yields no candidate, the tuning call never invokes
\* the kernel, the best-parameters vector stays the caller's default with the
\* best time at its maximum, and after the call the table maps the call's
\* obfuscated key to that default vector.
C17_EmptyKeepsDefault ==
  (pc \in {"tune", "returned"} /\ EmptyTuningCall) =>
     /\ state = "TUNING"
     /\ invs = 0 /\ lastInv = NoInvocation /\ hist = <<>> /\ chosen = 0
     /\ (pc = "tune") => (opt_param = default_param /\ opt_time = DoubleMax)
     /\ (pc = "returned") =>
          /\ CallKey \in DOMAIN param_table_
          /\ param_table_[CallKey] = default_param

\* the key had a loaded entry, which the default replaced
C17_Witness ==
  /\ pc = "returned" /\ EmptyTuningCall /\ default_param = <<8>>
  /\ param_key = "gemmTile"
  /\ CallKey \in DOMAIN table_at_call /\ table_at_call[CallKey] = <<4, 16>>
  /\ param_table_[CallKey] = <<8>>

\* C18: a TUNING call invokes the generator exactly once, before any kernel
\* invocation of the call; a CACHE_HIT or CACHE_MISS call never invokes it;
\* the candidates are benchmarked in the order the generator gave them, the
\* 12 invocations of each one after the other with none of another between.
C18_GeneratorOnceInOrder ==
  (pc \in {"tune", "returned"}) =>
     /\ (state = "TUNING") =>
          /\ genCalls = 1
          /\ invs = (WarmupRuns + MeasuredRuns) * Len(hist)
          /\ (pc = "tune") => Len(hist) = ci - 1
          /\ (pc = "returned") => Len(hist) = param_generator.n
          /\ \A i \in 1..Len(hist):
               /\ hist[i].param = Generate(param_generator)[i]
               /\ hist[i].first = (WarmupRuns + MeasuredRuns) * (i - 1) + 1
               /\ hist[i].last = (WarmupRuns + MeasuredRuns) * i
     /\ (state \in {"CACHE_HIT", "CACHE_MISS"}) => genCalls = 0

C18_Witness ==
  /\ pc = "returned" /\ TuningCall /\ genCalls = 1 /\ Len(hist) = 2
  /\ hist[1].param = <<1>> /\ hist[2].param = <<2>>
  /\ hist[2].first = 13 /\ invs = 24

\* C19: once a TUNING call for a key has returned, every later call for that
\* key that is not a tuning call is a CACHE_HIT, never a CACHE_MISS, and runs
\* the kernel with the vector the last tuning call for the key stored,
\* whatever default it passes and whatever calls for other keys came between.
C19_TuneThenReplay ==
  (pc = "returned" /\ ~TuningCall /\ CallKey \in DOMAIN tuned) =>
     /\ state = "CACHE_HIT"
     /\ lastInv = [param |-> tuned[CallKey].vec, timer |-> FALSE, out |-> FALSE]
     /\ invs = 1 /\ ret = invs
     /\ CallKey \in DOMAIN param_table_ /\ param_table_[CallKey] = tuned[CallKey].vec

\* convK3 was tuned, the flag went off, gemmTile was replayed from the loaded
\* file, and then convK3 is replayed with a default that differs
C19_Witness ==
  /\ pc = "returned" /\ state = "CACHE_HIT" /\ tuning_env /= FlagOn /\ ncalls = 3
  /\ param_key = "convK3" /\ DOMAIN tuned = {"k0"} /\ "k1" \in DOMAIN hitVec
  /\ lastInv.param = Refined(<<1>>) /\ tuned["k0"].vec = Refined(<<1>>)
  /\ default_param = <<7>>

\* C20: a TUNING call for a key that already has an entry does not consult
\* the entry: the selection starts from the caller's default, an empty output
\* buffer and the best time at its maximum, so that the first candidate is
\* always adopted; on return the entry is replaced by the session's winner
\* (the default when there was no candidate), whatever the time of the session
\* that produced the old entry; the other entries stay.
C20_RetuneReplaces ==
  (pc \in {"tune", "returned"} /\ TuningCall /\ CallKey \in DOMAIN table_at_call) =>
     /\ (pc = "tune" /\ ci = 1) =>
          (opt_param = default_param /\ opt_time = DoubleMax /\ tuning_result = <<>>)
     /\ (chosen = 0) <=> (hist = <<>>)
     /\ (pc = "returned") =>
          /\ DOMAIN param_table_ = DOMAIN table_at_call
          /\ param_table_[CallKey] =
               (IF chosen = 0 THEN default_param ELSE hist[chosen].out)
          /\ \A k \in DOMAIN table_at_call \ {CallKey}:
               param_table_[k] = table_at_call[k]

\* the call before tuned the same key in less time; its entry is replaced
C20_Witness ==
  /\ pc = "returned" /\ TuningCall /\ CallKey \in DOMAIN table_at_call
  /\ chosen = 1 /\ prev_time /= DoubleMax /\ TimeLess(prev_time, hist[1].cmp)
  /\ table_at_call[CallKey] = <<>> /\ param_table_[CallKey] = Refined(<<1>>)

====
